---- MODULE Spec2Model ----
(***************************************************************************)
(* sonden: listens to audio input, turns the amplifier on when there is    *)
(* music and off when things are silent for a while (src/sonden.go).       *)
(*                                                                         *)
(* The model follows the single goroutine of main(): the sample ring, the  *)
(* variance window, and turnOnOrOff with its transport calls (Ping,        *)
(* SendCommand, Close), whose outcomes are chosen by the environment.      *)
(*                                                                         *)
(* Variance() is a float64 in the code; here it is the exact rational      *)
(* [num, den], so that variance > threshold is num > threshold * den.      *)
(***************************************************************************)
EXTENDS Integers, Sequences, FiniteSets

\* ---------------------------------------------------------------- bounds

\* len(r.samples): 8192 in the code (ringSize, line 43), scaled down.
ringSize == 2

\* Largest -playing and -idle flag values (whole seconds) drawn in Init.
MaxPlaying == 2
MaxIdle == 2

\* The sent counters count up to MaxSent and stay there (keeps them finite).
MaxSent == 2

\* ------------------------------------------------------ program constants

quietVarianceThreshold == 1000
alsaQuietVarianceThreshold == 2000

\* Default -playing (7s) and -idle (5 min) flag values, in seconds.
defaultPlayingSeconds == 7
defaultIdleSeconds == 300

\* ----------------------------------------------------------- input sets

\* int16 samples read from the stream.
SampleValues == {-100, 100}

\* Values of the -threshold flag (0 selects the built-in default).
ThresholdFlags == {0, 10000}

\* Command tokens of turnOnOrOff.
Tokens == {"PWON", "PWSTANDBY"}

VARIABLES
    ring,             \* sampleRing: [i, samples, sum]
    vw,               \* varianceWindow: [size, i, lastConseqPlaying, totalNotPlaying]
    currentAmpState,  \* package variable currentAmpState
    mu,               \* package mutex mu: TRUE when held
    threshold,        \* *threshold after main's defaulting
    playing,          \* int(playing.Seconds())
    idle,             \* int(idle.Seconds())
    dryRun,           \* *dryRun
    pc,               \* position of the main goroutine
    state,            \* turnOnOrOff's parameter
    ret,              \* where turnOnOrOff returns to
    cmdi,             \* index into cmds of the range loop
    prevAmpState,     \* currentAmpState as turnOnOrOff found it on entry
    \* history of what the program did, read by the properties only
    hist,             \* the samples passed to sampleRing.Add, newest last, at most ringSize
    adds,             \* the number of sampleRing.Add calls so far, modulo ringSize
    verdicts,         \* the isNowPlaying values, newest last, at most playing of them
    callLog,          \* transport calls made by the current or latest turnOnOrOff call
    sent,             \* per token, the number of SendCommand calls that succeeded (up to MaxSent)
    confirmed,        \* the states whose whole command sequence was sent without failure
    fed               \* number of variance values fed directly by FeedVariance

vars == <<ring, vw, currentAmpState, mu, threshold, playing, idle, dryRun,
          pc, state, ret, cmdi, prevAmpState, hist, adds, verdicts, callLog, sent,
          confirmed, fed>>

flags == <<threshold, playing, idle, dryRun>>
locals == <<state, ret, cmdi, prevAmpState>>

\* ------------------------------------------------------------ min / max

\* The function literals passed to compare.
leqZero == [d \in Int |-> d <= 0]
geqZero == [d \in Int |-> d >= 0]

compare(a, b, fn) ==
    LET diff == a - b IN IF fn[diff] THEN a ELSE b

\* Mutant: the predicate of max.
min_AsMax(a, b) == compare(a, b, geqZero)

min(a, b) == compare(a, b, leqZero)

max(a, b) == compare(a, b, geqZero)

\* ------------------------------------------------------------ sampleRing

Slots == 0 .. (ringSize - 1)

sampleRing_Zero == [i |-> 0, samples |-> [k \in Slots |-> 0], sum |-> 0]

\* Mutant: the overwritten sample stays in the sum.
sampleRing_Add_NoEvict(r, sample) ==
    LET i1 == r.i + 1
    IN  [i       |-> IF i1 = ringSize THEN 0 ELSE i1,
         samples |-> [r.samples EXCEPT ![r.i] = sample],
         sum     |-> r.sum + sample]

\* Mutant: the cursor wraps one slot early.
sampleRing_Add_WrapEarly(r, sample) ==
    LET sum1 == r.sum - r.samples[r.i]
        sum2 == sum1 + sample
        i1   == r.i + 1
    IN  [i       |-> IF i1 = ringSize - 1 THEN 0 ELSE i1,
         samples |-> [r.samples EXCEPT ![r.i] = sample],
         sum     |-> sum2]

sampleRing_Add(r, sample) ==
    LET sum1 == r.sum - r.samples[r.i]
        sum2 == sum1 + sample
        i1   == r.i + 1
    IN  [i       |-> IF i1 = ringSize THEN 0 ELSE i1,
         samples |-> [r.samples EXCEPT ![r.i] = sample],
         sum     |-> sum2]

Abs(x) == IF x < 0 THEN -x ELSE x

RECURSIVE SumSq(_, _)
\* Sum over slots k..ringSize-1 of (|sum - ringSize*sample|)^2
SumSq(r, k) ==
    IF k = ringSize THEN 0
    ELSE LET d == Abs(r.sum - ringSize * r.samples[k])
         IN  d * d + SumSq(r, k + 1)

RECURSIVE SumSqOff(_, _)
SumSqOff(r, k) ==
    IF k = ringSize THEN 0
    ELSE LET d == Abs(ringSize * r.sum - ringSize * (ringSize - 1) * r.samples[k])
         IN  d * d + SumSqOff(r, k + 1)

\* Mutant: the mean is taken over ringSize - 1 samples.
sampleRing_Variance_MeanOff(r) ==
    [num |-> SumSqOff(r, 0),
     den |-> ringSize * ringSize * ringSize * (ringSize - 1) * (ringSize - 1)]

\* mean = sum/ringSize; v = (1/ringSize) * Sum (|mean - sample|)^2
\*      = SumSq / ringSize^3
sampleRing_Variance(r) ==
    [num |-> SumSq(r, 0), den |-> ringSize * ringSize * ringSize]

\* -------------------------------------------------------- varianceWindow

\* Mutant: a variance equal to the threshold counts as loud.
isLoud_Geq(variance) == variance.num >= threshold * variance.den

isLoud(variance) == variance.num > threshold * variance.den

\* Mutant: a quiet verdict decrements lastConseqPlaying instead of clearing it.
varianceWindow_Add_Decay(w, variance) ==
    LET i1 == w.i + 1
        i2 == IF i1 = w.size THEN 0 ELSE i1
    IN  IF isLoud(variance)
        THEN [w EXCEPT !.i = i2,
                       !.lastConseqPlaying = min(w.size, w.lastConseqPlaying + 1),
                       !.totalNotPlaying = max(0, w.totalNotPlaying - 1)]
        ELSE [w EXCEPT !.i = i2,
                       !.lastConseqPlaying = max(0, w.lastConseqPlaying - 1),
                       !.totalNotPlaying = min(w.size, w.totalNotPlaying + 1)]

\* Mutant: a loud verdict leaves totalNotPlaying as it is.
varianceWindow_Add_NoDecay(w, variance) ==
    LET i1 == w.i + 1
        i2 == IF i1 = w.size THEN 0 ELSE i1
    IN  IF isLoud(variance)
        THEN [w EXCEPT !.i = i2,
                       !.lastConseqPlaying = min(w.size, w.lastConseqPlaying + 1)]
        ELSE [w EXCEPT !.i = i2,
                       !.lastConseqPlaying = 0,
                       !.totalNotPlaying = min(w.size, w.totalNotPlaying + 1)]

varianceWindow_Add(w, variance) ==
    LET i1 == w.i + 1
        i2 == IF i1 = w.size THEN 0 ELSE i1
        isNowPlaying == isLoud(variance)
    IN  IF isNowPlaying
        THEN [w EXCEPT !.i = i2,
                       !.lastConseqPlaying = min(w.size, w.lastConseqPlaying + 1),
                       !.totalNotPlaying = max(0, w.totalNotPlaying - 1)]
        ELSE [w EXCEPT !.i = i2,
                       !.lastConseqPlaying = 0,
                       !.totalNotPlaying = min(w.size, w.totalNotPlaying + 1)]

\* Mutant: a strict comparison.
GoodToTurnOn_Strict(w) == w.lastConseqPlaying > playing

GoodToTurnOn(w) == w.lastConseqPlaying >= playing

\* Mutant: a strict comparison.
GoodToTurnOff_Strict(w) == w.totalNotPlaying > idle

GoodToTurnOff(w) == w.totalNotPlaying >= idle

\* ------------------------------------------------------------ turnOnOrOff

cmds(s) == IF s THEN <<"PWON">> ELSE <<"PWSTANDBY">>

Ev(op, cmd, ok) == [op |-> op, cmd |-> cmd, ok |-> ok]

InCall == pc \in {"turnOnOrOff", "Ping", "SendCommand", "Close"}

\* Mutant: the check is gone.
alreadyInState_Never == FALSE

\* if currentAmpState == state
alreadyInState == currentAmpState = state

\* Mutant: a failure leaves the desired state in the cache.
failedState_Keep(s) == s

\* currentAmpState = !state
failedState(s) == ~s

\* Mutant: commands are sent in dry-run mode too.
skipSend_Never == FALSE

\* if *dryRun
skipSend == dryRun

\* mu.Lock(); if currentAmpState == state { return }; currentAmpState = state
turnOnOrOffBegin ==
    /\ pc = "turnOnOrOff"
    /\ ~mu
    /\ callLog' = <<>>
    /\ prevAmpState' = currentAmpState
    /\ IF alreadyInState
       THEN /\ pc' = ret
            /\ UNCHANGED <<currentAmpState, mu>>
       ELSE /\ currentAmpState' = state
            /\ mu' = TRUE
            /\ pc' = "Ping"
    /\ UNCHANGED <<ring, vw, flags, state, ret, cmdi, hist, adds, verdicts, sent,
                   confirmed, fed>>

\* Mutant: a failed Ping is logged with log.Fatalf.
turnOnOrOffPing_Fatal(ok) ==
    /\ pc = "Ping"
    /\ callLog' = Append(callLog, Ev("Ping", "", ok))
    /\ IF ok
       THEN /\ cmdi' = 1
            /\ pc' = "SendCommand"
            /\ UNCHANGED <<currentAmpState, mu>>
       ELSE /\ currentAmpState' = failedState(state)
            /\ pc' = "Fatal"
            /\ UNCHANGED <<cmdi, mu>>
    /\ UNCHANGED <<ring, vw, flags, state, ret, prevAmpState, hist, adds, verdicts,
                   sent, confirmed, fed>>

\* Mutant: a failed Ping returns with the mutex still held.
turnOnOrOffPing_NoUnlock(ok) ==
    /\ pc = "Ping"
    /\ callLog' = Append(callLog, Ev("Ping", "", ok))
    /\ IF ok
       THEN /\ cmdi' = 1
            /\ pc' = "SendCommand"
            /\ UNCHANGED <<currentAmpState, mu>>
       ELSE /\ currentAmpState' = failedState(state)
            /\ pc' = ret
            /\ UNCHANGED <<cmdi, mu>>
    /\ UNCHANGED <<ring, vw, flags, state, ret, prevAmpState, hist, adds, verdicts,
                   sent, confirmed, fed>>

\* amp := avr.New(*ampAddr); amp.Ping()
turnOnOrOffPing(ok) ==
    /\ pc = "Ping"
    /\ callLog' = Append(callLog, Ev("Ping", "", ok))
    /\ IF ok
       THEN /\ cmdi' = 1
            /\ pc' = "SendCommand"
            /\ UNCHANGED <<currentAmpState, mu>>
       ELSE /\ currentAmpState' = failedState(state)
            /\ mu' = FALSE
            /\ pc' = ret
            /\ UNCHANGED cmdi
    /\ UNCHANGED <<ring, vw, flags, state, ret, prevAmpState, hist, adds, verdicts,
                   sent, confirmed, fed>>

\* The effect of leaving the range loop body for command number cmdi.
LoopNext ==
    IF cmdi = Len(cmds(state))
    THEN /\ pc' = "Close"
         /\ confirmed' = IF dryRun THEN confirmed ELSE confirmed \cup {state}
         /\ UNCHANGED cmdi
    ELSE /\ pc' = "SendCommand"
         /\ cmdi' = cmdi + 1
         /\ UNCHANGED confirmed

\* One iteration of: for _, cmd := range cmds { ... }
turnOnOrOffSend(ok) ==
    /\ pc = "SendCommand"
    /\ LET cmd == cmds(state)[cmdi] IN
       IF skipSend
       THEN /\ LoopNext
            /\ UNCHANGED <<currentAmpState, mu, callLog, sent>>
       ELSE /\ callLog' = Append(callLog, Ev("SendCommand", cmd, ok))
            /\ IF ok
               THEN /\ sent' = [sent EXCEPT ![cmd] = IF @ < MaxSent THEN @ + 1 ELSE @]
                    /\ LoopNext
                    /\ UNCHANGED <<currentAmpState, mu>>
               ELSE /\ currentAmpState' = failedState(state)
                    /\ mu' = FALSE
                    /\ pc' = ret
                    /\ UNCHANGED <<sent, confirmed, cmdi>>
    /\ UNCHANGED <<ring, vw, flags, state, ret, prevAmpState, hist, adds, verdicts, fed>>

\* time.Sleep(1 * time.Second); amp.Close(); deferred mu.Unlock()
turnOnOrOffClose ==
    /\ pc = "Close"
    /\ callLog' = Append(callLog, Ev("Close", "", TRUE))
    /\ mu' = FALSE
    /\ pc' = ret
    /\ UNCHANGED <<ring, vw, currentAmpState, flags, locals, hist, adds, verdicts,
                   sent, confirmed, fed>>

\* ------------------------------------------------------------------ main

\* The last n elements of s (all of s when it is shorter).
Last(s, n) == IF Len(s) <= n THEN s ELSE SubSeq(s, Len(s) - n + 1, Len(s))

\* vw.Add(variance), then on to the two decisions.
Classify(variance) ==
    /\ vw' = varianceWindow_Add(vw, variance)
    /\ verdicts' = Last(Append(verdicts, isLoud(variance)), playing)
    /\ pc' = "GoodToTurnOn"

\* Mutant: the test is off by one slot.
refilled_OffByOne(r) == r.i = 1

\* if ring.i != 0 { continue }: the ring has (re-)filled when this is TRUE.
refilled(r) == r.i = 0

\* binary.Read succeeds; ring.Add(sample); if ring.i != 0 { continue };
\* vw.Add(ring.Variance())
ReadSample(sample) ==
    /\ pc = "Read"
    /\ ring' = sampleRing_Add(ring, sample)
    /\ hist' = Last(Append(hist, sample), ringSize)
    /\ adds' = (adds + 1) % ringSize
    /\ IF ~refilled(ring')
       THEN UNCHANGED <<vw, verdicts, pc>>
       ELSE Classify(sampleRing_Variance(ring'))
    /\ UNCHANGED <<currentAmpState, mu, flags, locals, callLog, sent, confirmed, fed>>

\* Mutant: the sample variable is added to the ring before err is looked at.
ReadError_AddsFirst ==
    /\ pc = "Read"
    /\ pc' = "Fatal"
    /\ ring' = sampleRing_Add(ring, 0)
    /\ UNCHANGED <<vw, currentAmpState, mu, flags, locals, hist, adds, verdicts,
                   callLog, sent, confirmed, fed>>

\* binary.Read fails: log.Fatalf ends the process.
ReadError ==
    /\ pc = "Read"
    /\ pc' = "Fatal"
    /\ UNCHANGED <<ring, vw, currentAmpState, mu, flags, locals, hist, adds, verdicts,
                   callLog, sent, confirmed, fed>>

\* if vw.GoodToTurnOn() { turnOnOrOff(true) }
DecideOn ==
    /\ pc = "GoodToTurnOn"
    /\ IF GoodToTurnOn(vw)
       THEN /\ pc' = "turnOnOrOff"
            /\ state' = TRUE
            /\ ret' = "GoodToTurnOff"
       ELSE /\ pc' = "GoodToTurnOff"
            /\ UNCHANGED <<state, ret>>
    /\ UNCHANGED <<ring, vw, currentAmpState, mu, flags, cmdi, prevAmpState, hist, adds, verdicts,
                   callLog, sent, confirmed, fed>>

\* if vw.GoodToTurnOff() { turnOnOrOff(false) }
DecideOff ==
    /\ pc = "GoodToTurnOff"
    /\ IF GoodToTurnOff(vw)
       THEN /\ pc' = "turnOnOrOff"
            /\ state' = FALSE
            /\ ret' = "Read"
       ELSE /\ pc' = "Read"
            /\ UNCHANGED <<state, ret>>
    /\ UNCHANGED <<ring, vw, currentAmpState, mu, flags, cmdi, prevAmpState, hist, adds, verdicts,
                   callLog, sent, confirmed, fed>>

\* The threshold in force after main's defaulting (lines 179-185).
EffectiveThreshold(flagValue, alsa) ==
    IF flagValue = 0
    THEN IF alsa THEN alsaQuietVarianceThreshold ELSE quietVarianceThreshold
    ELSE flagValue

\* The state on entering the for loop of main, the flags apart.
InitLoop ==
    /\ ring = sampleRing_Zero
    /\ vw = [size |-> idle + playing, i |-> 0,
             lastConseqPlaying |-> 0, totalNotPlaying |-> 0]
    /\ currentAmpState = FALSE
    /\ mu = FALSE
    /\ pc = "Read"
    /\ state = FALSE
    /\ ret = "Read"
    /\ cmdi = 1
    /\ prevAmpState = FALSE
    /\ hist = <<>>
    /\ adds = 0
    /\ verdicts = <<>>
    /\ callLog = <<>>
    /\ sent = [t \in Tokens |-> 0]
    /\ confirmed = {}
    /\ fed = 0

Init ==
    /\ \E f \in ThresholdFlags, alsa \in BOOLEAN :
          threshold = EffectiveThreshold(f, alsa)
    /\ playing \in 1 .. MaxPlaying
    /\ idle \in 1 .. MaxIdle
    /\ dryRun \in BOOLEAN
    /\ InitLoop

Next ==
    \/ \E sample \in SampleValues : ReadSample(sample)
    \/ ReadError
    \/ DecideOn
    \/ DecideOff
    \/ turnOnOrOffBegin
    \/ \E ok \in BOOLEAN : turnOnOrOffPing(ok)
    \/ \E ok \in BOOLEAN : turnOnOrOffSend(ok)
    \/ turnOnOrOffClose

Spec == Init /\ [][Next]_vars

\* ------------------------------------------------- end-to-end scenario

\* The variance values of the scenario: loud for the playing threshold's
\* number of ticks, then quiet for one tick and the idle threshold's more.
LoudVariance == [num |-> 5000, den |-> 1]
QuietVariance == [num |-> 0, den |-> 1]
ScenarioLoud == defaultPlayingSeconds
ScenarioTicks == defaultPlayingSeconds + 1 + defaultIdleSeconds

\* One pass of the loop body from vw.Add on, with the value ring.Variance()
\* returned given by the scenario.
FeedVariance ==
    /\ pc = "Read"
    /\ fed < ScenarioTicks
    /\ fed' = fed + 1
    /\ Classify(IF fed < ScenarioLoud THEN LoudVariance ELSE QuietVariance)
    /\ UNCHANGED <<ring, hist, adds, currentAmpState, mu, flags, locals, callLog, sent,
                   confirmed>>

InitScenario ==
    /\ threshold = EffectiveThreshold(0, FALSE)
    /\ playing = defaultPlayingSeconds
    /\ idle = defaultIdleSeconds
    /\ dryRun = FALSE
    /\ InitLoop

\* The transport never fails.
NextScenario ==
    \/ FeedVariance
    \/ DecideOn
    \/ DecideOff
    \/ turnOnOrOffBegin
    \/ turnOnOrOffPing(TRUE)
    \/ turnOnOrOffSend(TRUE)
    \/ turnOnOrOffClose

SpecScenario == InitScenario /\ [][NextScenario]_vars

\* ---------------------------------------------------------------- claims

NoneSent == [t \in Tokens |-> 0]

\* C1: from a fresh start with threshold 1000, playing threshold 7, idle
\* threshold 300 and a transport that never fails: once 7 ticks of variance
\* 5000 are processed exactly one PWON was sent (and none before the 7th);
\* after one more tick of variance 0 no PWSTANDBY was sent; after 300 more
\* ticks of variance 0 exactly one PWON and one PWSTANDBY were sent in all.
C1_EndToEnd ==
    /\ fed < ScenarioLoud => sent = NoneSent
    /\ (fed = ScenarioLoud /\ pc = "Read") =>
           sent = [NoneSent EXCEPT !["PWON"] = 1]
    /\ (fed = ScenarioLoud + 1 /\ pc = "Read") =>
           sent = [NoneSent EXCEPT !["PWON"] = 1]
    /\ (fed = ScenarioTicks /\ pc = "Read") =>
           sent = [t \in Tokens |-> 1]

C1_Witness ==
    /\ fed = ScenarioTicks
    /\ pc = "Read"
    /\ sent["PWSTANDBY"] = 1
    /\ currentAmpState = FALSE

\* The latest turnOnOrOff call has returned.
Returned == ~InCall

\* The transport calls of the latest call that reported an error.
Failures == SelectSeq(callLog, LAMBDA e : ~e.ok)

IsSend(e) == e.op = "SendCommand"
IsPing(e) == e.op = "Ping"

\* C2: a turnOnOrOff call that finds the cached state equal to the desired
\* state returns at once: no Ping, no SendCommand, cached state and sent
\* counts unchanged; and a call whose transmission succeeded leaves the
\* cached state equal to the desired state, so that calling it again with
\* the same argument is such a call and transmits nothing more.
C2_Idempotent ==
    /\ [](Returned /\ callLog # <<>> /\ Failures = <<>> => currentAmpState = state)
    /\ [][(pc = "turnOnOrOff" /\ currentAmpState = state) =>
            /\ pc' = ret
            /\ callLog' = <<>>
            /\ UNCHANGED <<currentAmpState, sent, confirmed, mu>>]_vars

\* turnOnOrOff(true) was called again after its PWON went out, and returned
\* without a transport call.
C2_Witness ==
    /\ pc = "GoodToTurnOff"
    /\ state
    /\ currentAmpState
    /\ callLog = <<>>
    /\ sent["PWON"] = 1
    /\ ~dryRun

\* C3: with commands really sent (no dry run), a turnOnOrOff(s) call is
\* skipped as already-in-state s only if a complete command sequence for s
\* was sent without failure before; in particular the first request for
\* either state leads to a command attempt.
C3_SkippedOnlyIfTransmitted ==
    (~dryRun /\ pc = "turnOnOrOff" /\ currentAmpState = state) =>
        state \in confirmed

\* C4: when turnOnOrOff(s) has returned after a failed Ping or a failed
\* SendCommand, the cached state is the one the call found on entry and
\* differs from s (so turnOnOrOff(s) is not skipped next time), and the
\* failing transport call is the last one the call made.
C4_FailureReverts ==
    (Returned /\ Failures # <<>>) =>
        /\ currentAmpState = prevAmpState
        /\ currentAmpState # state
        /\ ~callLog[Len(callLog)].ok
        /\ Len(Failures) = 1
        /\ ~mu

\* A SendCommand failed after a successful Ping and the call returned.
C4_Witness ==
    /\ Returned
    /\ Len(callLog) = 2
    /\ callLog[1] = Ev("Ping", "", TRUE)
    /\ IsSend(callLog[2])
    /\ ~callLog[2].ok
    /\ currentAmpState = ~state

\* The specification for liveness: commands are really sent, the threshold is
\* the default one, the -playing and -idle flags are the largest ones, and the
\* goroutine takes a step whenever it can (every transport call returns).
InitLive ==
    /\ threshold = EffectiveThreshold(0, FALSE)
    /\ playing = MaxPlaying
    /\ idle = MaxIdle
    /\ dryRun = FALSE
    /\ InitLoop

SpecLive == InitLive /\ [][Next]_vars /\ WF_vars(Next)

\* The classifier asks for state s.
Wants(s) == IF s THEN GoodToTurnOn(vw) ELSE GoodToTurnOff(vw)

\* The latest call, for state s, returned after a failed Ping.
ConnectFailed(s) ==
    Returned /\ state = s /\ callLog = <<Ev("Ping", "", FALSE)>>

\* The latest call, for state s, returned after sending its whole command
\* sequence, and the cached state is s.
Recovered(s) ==
    /\ Returned
    /\ state = s
    /\ currentAmpState = s
    /\ s \in confirmed
    /\ callLog = <<Ev("Ping", "", TRUE), Ev("SendCommand", cmds(s)[1], TRUE),
                   Ev("Close", "", TRUE)>>

\* C5: no call makes more than one connect attempt; and if the sample stream
\* never ends, the transport from some point on reports
\* no failure, and the classifier from some point on asks for s on every
\* tick, then every connect failure of a call for s is followed by a call for
\* s that sends the whole command sequence and leaves the cached state at s.
C5_FailureRecovery ==
    /\ [](Len(SelectSeq(callLog, IsPing)) <= 1)
    /\ \A s \in BOOLEAN :
          ([](pc # "Fatal") /\ <>[](Failures = <<>>) /\ <>[]Wants(s))
          => (ConnectFailed(s) ~> Recovered(s))

\* A call for on has failed at connect while the classifier asks for on.
C5_Witness ==
    /\ ConnectFailed(TRUE)
    /\ Wants(TRUE)
    /\ ~currentAmpState
    /\ pc = "Read"

\* C6: with dry-run enabled no SendCommand is ever issued, a call whose Ping
\* succeeded returns with the cached state equal to its argument, and the
\* call still starts with the state check and the Ping.
C6_DryRun ==
    dryRun =>
        /\ sent = NoneSent
        /\ SelectSeq(callLog, IsSend) = <<>>
        /\ pc \in {"SendCommand", "Close"} => callLog = <<Ev("Ping", "", TRUE)>>
        /\ (Returned /\ callLog # <<>> /\ callLog[1].ok) =>
              /\ currentAmpState = state
              /\ callLog = <<Ev("Ping", "", TRUE), Ev("Close", "", TRUE)>>

\* A dry-run turnOnOrOff(true) connected and returned.
C6_Witness ==
    /\ dryRun
    /\ Returned
    /\ state
    /\ currentAmpState
    /\ callLog = <<Ev("Ping", "", TRUE), Ev("Close", "", TRUE)>>

\* C7: while an actuation is in flight (between Ping and Close, any of
\* which may hang), the sampling loop can read and process the next sample.
C7_LoopNeverBlocks ==
    pc \in {"Ping", "SendCommand", "Close"} =>
        ENABLED (\E sample \in SampleValues : ReadSample(sample))

RECURSIVE SeqSum(_)
SeqSum(s) == IF s = <<>> THEN 0 ELSE Head(s) + SeqSum(Tail(s))

RECURSIVE SlotSum(_, _)
SlotSum(r, k) == IF k = ringSize THEN 0 ELSE r.samples[k] + SlotSum(r, k + 1)

\* C8: after any sequence of sampleRing.Add calls the running sum is the
\* arithmetic sum of the samples held in the ring, which is the sum of the
\* ringSize most recently added samples once that many were added (and of
\* all added samples before).
C8_RunningSum ==
    /\ ring.sum = SlotSum(ring, 0)
    /\ ring.sum = SeqSum(hist)

\* The window was all 100 at the last refill (a quiet verdict under the
\* default threshold), and the next Add has since evicted a 100 for a -100.
C8_Witness ==
    /\ threshold = quietVarianceThreshold
    /\ verdicts # <<>>
    /\ ~verdicts[Len(verdicts)]
    /\ ring.i = 1
    /\ ring.samples[0] = -100
    /\ ring.samples[ringSize - 1] = 100
    /\ ring.sum = 100 * (ringSize - 1) - 100

\* C9: lastConseqPlaying and totalNotPlaying always lie in [0, H], where
\* H = idle seconds + playing seconds = vw.size.
C9_CountersBounded ==
    /\ vw.size = idle + playing
    /\ vw.lastConseqPlaying \in 0 .. vw.size
    /\ vw.totalNotPlaying \in 0 .. vw.size

\* totalNotPlaying stands at its cap H after H + 1 verdicts (vw.i has
\* wrapped), the last of them quiet.
C9_Witness ==
    /\ vw.totalNotPlaying = vw.size
    /\ vw.i = 1
    /\ verdicts # <<>>
    /\ ~verdicts[Len(verdicts)]

AllLoud(s) == \A k \in 1 .. Len(s) : s[k]

\* C10: GoodToTurnOn() holds exactly when the current unbroken run of loud
\* verdicts has length at least the playing threshold, i.e. when the last
\* playing verdicts exist and are all loud; so it becomes true at the
\* playing-th consecutive loud verdict, not before, and any quiet verdict
\* makes it false.
C10_TurnOnAfterRun ==
    GoodToTurnOn(vw) <=> (Len(verdicts) = playing /\ AllLoud(verdicts))

\* GoodToTurnOn() with a threshold of two seconds, after a quiet verdict.
C10_Witness ==
    /\ playing = 2
    /\ GoodToTurnOn(vw)
    /\ vw.totalNotPlaying > 0
    /\ verdicts = <<TRUE, TRUE>>

\* A step that calls vw.Add (vw.i changes on every call), and one whose
\* verdict is quiet.
VerdictStep == vw' # vw
QuietStep == VerdictStep /\ ~verdicts'[Len(verdicts')]
LoudStep == VerdictStep /\ verdicts'[Len(verdicts')]

\* C11 as stated: in every reachable state where GoodToTurnOn() is true, one
\* following quiet verdict leaves totalNotPlaying below the idle threshold.
C11_QuietKeepsBelowIdle ==
    [][(QuietStep /\ GoodToTurnOn(vw)) => ~GoodToTurnOff(vw')]_vars

\* C11 as amended: in every reachable state where GoodToTurnOn() is true, one
\* following quiet verdict adds exactly one to totalNotPlaying (no reset, cap
\* H), so GoodToTurnOff() is false after it exactly when totalNotPlaying was
\* below idle - 1 before it.
C11_QuietAddsOne ==
    [][(QuietStep /\ GoodToTurnOn(vw)) =>
          /\ vw'.totalNotPlaying =
                IF vw.totalNotPlaying < vw.size
                THEN vw.totalNotPlaying + 1 ELSE vw.size
          /\ ~GoodToTurnOff(vw') <=> vw.totalNotPlaying < idle - 1]_vars

\* With -playing=1s and -idle=2s: the amplifier was switched on, a quiet
\* verdict followed, and totalNotPlaying is 1, below the idle threshold.
C11_Witness ==
    /\ playing = 1
    /\ idle = 2
    /\ vw.i = 2
    /\ vw.lastConseqPlaying = 0
    /\ vw.totalNotPlaying = 1
    /\ ~GoodToTurnOff(vw)
    /\ currentAmpState
    /\ sent = [NoneSent EXCEPT !["PWON"] = 1]
    /\ pc = "Read"

\* C12: the write cursor is back at 0 after the k*ringSize-th Add (k >= 1)
\* and after no other Add, and varianceWindow.Add is called exactly once at
\* each of these Adds and at no other step.
C12_FedOncePerRefill ==
    /\ [][ring' # ring =>
            /\ ring'.i = 0 <=> adds' = 0
            /\ VerdictStep <=> adds' = 0]_vars
    /\ [][VerdictStep =>
            /\ ring' # ring
            /\ vw'.i = (vw.i + 1) % vw.size]_vars

\* The second refill of the ring has just fed the second variance value.
C12_Witness ==
    /\ pc = "GoodToTurnOn"
    /\ ring.i = 0
    /\ adds = 0
    /\ vw.i = 2
    /\ vw.totalNotPlaying = 2

\* The samples of s are all the same.
AllSame(s) == \A j, k \in 1 .. Len(s) : s[j] = s[k]

\* C13: whenever the last ringSize samples added are one and the same value,
\* Variance() is 0.
C13_IdenticalSamples ==
    (Len(hist) = ringSize /\ AllSame(hist)) =>
        sampleRing_Variance(ring).num = 0

\* Variance() was just computed over a window of ringSize samples of -100,
\* after earlier windows that were loud, and the verdict was quiet.
C13_Witness ==
    /\ pc = "GoodToTurnOn"
    /\ threshold = quietVarianceThreshold
    /\ hist = [k \in 1 .. ringSize |-> -100]
    /\ sampleRing_Variance(ring).num = 0
    /\ vw.lastConseqPlaying = 0
    /\ vw.totalNotPlaying = 1
    /\ vw.i = 0

\* C14: a failed sample read ends the process: it happens only where the
\* loop reads, it changes neither the ring, the classifier, the cached state
\* nor anything sent, and no step of the program follows it.
C14_ReadErrorFatal ==
    /\ [][pc # "Fatal"]_vars
    /\ [][pc' = "Fatal" =>
            /\ pc = "Read"
            /\ UNCHANGED <<ring, vw, currentAmpState, mu, callLog, sent>>]_vars

\* The read failed in the middle of a window, after the amplifier was
\* switched on.
C14_Witness ==
    /\ pc = "Fatal"
    /\ ring.i = 1
    /\ currentAmpState
    /\ sent["PWON"] = 1

\* A transport call of turnOnOrOff reports an error in this step.
FailingStep == Failures = <<>> /\ Failures' # <<>>

\* C15: every failed Ping or SendCommand makes turnOnOrOff return to the
\* loop of main with the mutex released and the ring and the classifier
\* untouched, however many failures came before; the loop is then back at
\* reading the next sample, and as long as the stream delivers samples the
\* classifier runs on the next tick.
C15_LoopSurvives ==
    /\ [][FailingStep =>
            /\ pc' = ret
            /\ ret \in {"GoodToTurnOff", "Read"}
            /\ ~mu'
            /\ UNCHANGED <<ring, vw>>]_vars
    /\ (Failures # <<>> /\ pc # "Fatal") ~> pc = "Read"
    /\ [](pc # "Fatal") =>
          ((Failures # <<>> /\ pc = "Read") ~> pc = "GoodToTurnOn")

\* After a failed call the loop has read a further sample, and the
\* classifier asks again.
C15_Witness ==
    /\ pc = "Read"
    /\ Failures # <<>>
    /\ ring.i = 1
    /\ ~currentAmpState
    /\ state
    /\ sent = NoneSent

\* C16: each varianceWindow.Add(variance) is loud exactly when variance >
\* threshold (a variance equal to the threshold is quiet); if loud,
\* lastConseqPlaying becomes min(H, lastConseqPlaying + 1) and
\* totalNotPlaying max(0, totalNotPlaying - 1); otherwise lastConseqPlaying
\* becomes 0 and totalNotPlaying min(H, totalNotPlaying + 1).
C16_AddUpdate ==
    [][VerdictStep =>
        LET v    == sampleRing_Variance(ring')
            H    == idle + playing
            loud == ~(v.num <= threshold * v.den)
            lcp  == vw.lastConseqPlaying
            tnp  == vw.totalNotPlaying
        IN  /\ verdicts'[Len(verdicts')] = loud
            /\ loud =>
                 /\ vw'.lastConseqPlaying = IF lcp + 1 > H THEN H ELSE lcp + 1
                 /\ vw'.totalNotPlaying = IF tnp - 1 < 0 THEN 0 ELSE tnp - 1
            /\ ~loud =>
                 /\ vw'.lastConseqPlaying = 0
                 /\ vw'.totalNotPlaying = IF tnp + 1 > H THEN H ELSE tnp + 1]_vars

\* A window whose variance equals the threshold (10000 for the samples 100
\* and -100 in a ring of two) was just classified as quiet, with
\* totalNotPlaying held at its cap H.
C16_Witness ==
    /\ pc = "GoodToTurnOn"
    /\ sampleRing_Variance(ring).num = threshold * sampleRing_Variance(ring).den
    /\ threshold > 0
    /\ ~verdicts[Len(verdicts)]
    /\ vw.lastConseqPlaying = 0
    /\ vw.totalNotPlaying = vw.size

\* C17: GoodToTurnOn() and GoodToTurnOff() are never both true after the
\* same classifier update, so no tick calls turnOnOrOff(true) and then
\* turnOnOrOff(false).
C17_NeverBothGood ==
    ~(GoodToTurnOn(vw) /\ GoodToTurnOff(vw))

\* C18: with the stream never ending and a transport that from some point
\* on does not fail, if from some tick on every verdict is loud
\* then from some point on the cached state is on for good, with no
\* actuation in flight any more (so no later PWSTANDBY).
C18_LoudSettlesOn ==
    ([](pc # "Fatal") /\ <>[](Failures = <<>>)
        /\ <>[](verdicts # <<>> /\ verdicts[Len(verdicts)]))
    => <>[](currentAmpState /\ pc \notin {"Ping", "SendCommand", "Close"})

\* The amplifier is on and settled after a loud run that began with
\* totalNotPlaying high enough for a PWSTANDBY to have been sent.
C18_Witness ==
    /\ currentAmpState
    /\ pc = "Read"
    /\ vw.lastConseqPlaying = vw.size
    /\ vw.totalNotPlaying = 0
    /\ sent["PWSTANDBY"] >= 1
    /\ TRUE \in confirmed

\* The latest call connected (its Ping succeeded).
Connected == callLog # <<>> /\ callLog[1] = Ev("Ping", "", TRUE)

\* C19: a turnOnOrOff call that connected (its Ping succeeded) has closed
\* the connection by the time it has returned, whichever way it returned:
\* the last transport event of the call is the Close.
C19_ConnectionClosed ==
    (Returned /\ Connected) => callLog[Len(callLog)].op = "Close"

\* The ring as it is when its slots hold exactly the samples s, oldest first.
RingOf(s) ==
    [i |-> 0, samples |-> [k \in Slots |-> s[k + 1]], sum |-> SeqSum(s)]

\* C20: whenever the main loop feeds the classifier, ringSize samples have
\* been read since the stream began, every slot of the ring holds one of the
\* last ringSize samples read (slot k the (k+1)-th oldest), and the verdict
\* is the one of the variance of those samples alone: no slot still holds
\* its initial zero.
C20_OnlyRealSamples ==
    [][VerdictStep =>
          /\ Len(hist') = ringSize
          /\ \A k \in Slots : ring'.samples[k] = hist'[k + 1]
          /\ ring' = RingOf(hist')
          /\ verdicts'[Len(verdicts')] = isLoud(sampleRing_Variance(RingOf(hist')))]_vars

\* The classifier has just been fed for the first time, on a ring filled
\* from empty with samples that are all nonzero and not all equal.
C20_Witness ==
    /\ pc = "GoodToTurnOn"
    /\ vw.i = 1 % vw.size
    /\ Len(verdicts) = 1
    /\ Len(hist) = ringSize
    /\ hist[1] = 100 /\ hist[ringSize] = -100
    /\ \A k \in Slots : ring.samples[k] # 0 /\ ring.samples[k] = hist[k + 1]

====
